---- MODULE Spec2Model ----
(***************************************************************************)
(* Model of the transaction processor: fixed-point money (moneys.rs),      *)
(* account balance transitions (account.rs) and the ledger processor       *)
(* (processor.rs) driven one command at a time.                            *)
(*                                                                         *)
(* Encodings used throughout:                                              *)
(*   Option<T>    None is <<>>, Some(x) is <<x>>                           *)
(*   Result<T>    [ok, val, err]: Ok(v) has ok = TRUE and val = v,         *)
(*                Err(e) has ok = FALSE and err = the message of the code  *)
(*   HashMap<K,V> a function whose DOMAIN is the set of keys present       *)
(*   f64 amount   an integer count of 10^-5, a tenth of a money unit       *)
(*                                                                         *)
(* Specifications:                                                         *)
(*   Spec         Processor::execute called with one command after another *)
(*   SpecAdmin    the same, with Processor::unlock called in between       *)
(*   SpecRun      run_processor and main over a stream of records          *)
(*   SpecAccount  the methods of Account called on any account they make   *)
(*   SpecMoneys   Moneys::add, Moneys::sub and the conversions from text   *)
(*                and f64 at the full width of u64 and f64                 *)
(* The first four run on a ledger scaled down to MAX_EXACT_UNITS = 1;      *)
(* SpecMoneys keeps the program's 10^14 and the 53-bit mantissa of f64.    *)
(***************************************************************************)
EXTENDS Integers, Sequences, FiniteSets, TLC

\* ---------------------------------------------------------------- bounds

\* The client ids of the commands are 1..NumClients.
NumClients == 2

\* The transaction ids of the commands are 1..NumTx.
NumTx == 2

\* ------------------------------------------------------------- moneys.rs

\* Moneys::MAX_EXACT_UNITS, 10^14 in the source, scaled down to keep the
\* ledger finite: every comparison against it is kept as the code makes it.
MAX_EXACT_UNITS == 1

\* Moneys::ONE_UNIT_AS_AMOUNT, 0.0001 in the source: one unit is this many
\* steps of the amount grid (10^-5).
ONE_UNIT_AS_AMOUNT == 10

ZERO == 0

Ok(v) == [ok |-> TRUE, val |-> v, err |-> ""]

Err(e) == [ok |-> FALSE, val |-> <<>>, err |-> e]

\* Moneys::add without its comparison against MAX
MoneysAdd_unchecked(a, b) == Ok(a + b)

\* Moneys::add
MoneysAdd(a, b) ==
    LET sum == a + b
    IN  IF sum > MAX_EXACT_UNITS THEN Err("addition overflow") ELSE Ok(sum)

\* Moneys::sub
MoneysSub(a, b) ==
    IF a < b THEN Err("subtraction underflow") ELSE Ok(a - b)

\* (num / ONE_UNIT_AS_AMOUNT).round(): the nearest whole number of units, ties
\* away from zero
RoundUnits(num) ==
    IF num >= 0
    THEN (2 * num + ONE_UNIT_AS_AMOUNT) \div (2 * ONE_UNIT_AS_AMOUNT)
    ELSE 0 - ((2 * (0 - num) + ONE_UNIT_AS_AMOUNT) \div (2 * ONE_UNIT_AS_AMOUNT))

\* impl TryFrom<f64> for Moneys
MoneysTryFrom(num) ==
    LET units == RoundUnits(num)
    IN  IF units < 0 THEN Err("negative money value")
        ELSE IF units > MAX_EXACT_UNITS THEN Err("money value too big")
        ELSE Ok(units)

\* ----------------------------------------------------------------- io.rs

CommandTypes == {"Deposit", "Withdrawal", "Dispute", "Resolve", "Chargeback"}

\* Command::get_moneys
get_moneys(cmd) ==
    IF cmd.amount = <<>>
    THEN Err("transaction is missing amount of money")
    ELSE MoneysTryFrom(cmd.amount[1])

\* ------------------------------------------------------------ account.rs

\* new leaving the client field at its default
AccountNew_default_client(client) ==
    [client |-> 0, available |-> ZERO, held |-> ZERO, locked |-> FALSE]

\* Account::new
AccountNew(client) ==
    [client |-> client, available |-> ZERO, held |-> ZERO, locked |-> FALSE]

\* Account::deposit
AccountDeposit(self, amount) ==
    LET new_available == MoneysAdd(self.available, amount)
    IN  IF ~new_available.ok THEN Err(new_available.err)
        ELSE Ok([self EXCEPT !.available = new_available.val])

\* Account::withdraw
AccountWithdraw(self, amount) ==
    LET new_available == MoneysSub(self.available, amount)
    IN  IF ~new_available.ok THEN Err(new_available.err)
        ELSE Ok([self EXCEPT !.available = new_available.val])

\* Account::dispute taking the amount from available without holding it
AccountDispute_without_hold(self, amount) ==
    LET available == MoneysSub(self.available, amount)
    IN  IF ~available.ok THEN Err(available.err)
        ELSE Ok([self EXCEPT !.available = available.val])

\* Account::dispute
AccountDispute(self, amount) ==
    LET new_available == MoneysSub(self.available, amount)
        new_held == MoneysAdd(self.held, amount)
    IN  IF ~new_available.ok THEN Err(new_available.err)
        ELSE IF ~new_held.ok THEN Err(new_held.err)
        ELSE Ok([self EXCEPT !.available = new_available.val,
                             !.held = new_held.val])

\* Account::resolve releasing the held amount without making it available
AccountResolve_without_release(self, amount) ==
    LET new_held == MoneysSub(self.held, amount)
    IN  IF ~new_held.ok THEN Err(new_held.err)
        ELSE Ok([self EXCEPT !.held = new_held.val])

\* Account::resolve
AccountResolve(self, amount) ==
    LET new_available == MoneysAdd(self.available, amount)
        new_held == MoneysSub(self.held, amount)
    IN  IF ~new_available.ok THEN Err(new_available.err)
        ELSE IF ~new_held.ok THEN Err(new_held.err)
        ELSE Ok([self EXCEPT !.available = new_available.val,
                             !.held = new_held.val])

\* chargeback taking the amount out of available as well
AccountChargeback_from_available(self, amount) ==
    LET new_available == MoneysSub(self.available, amount)
        new_held == MoneysSub(self.held, amount)
    IN  IF ~new_available.ok THEN Err(new_available.err)
        ELSE IF ~new_held.ok THEN Err(new_held.err)
        ELSE Ok([self EXCEPT !.available = new_available.val,
                             !.held = new_held.val, !.locked = TRUE])

\* Account::chargeback
AccountChargeback(self, amount) ==
    LET new_held == MoneysSub(self.held, amount)
    IN  IF ~new_held.ok THEN Err(new_held.err)
        ELSE Ok([self EXCEPT !.held = new_held.val, !.locked = TRUE])

\* unlock handing back an account as new
AccountUnlock_as_new(self) == AccountNew(self.client)

\* Account::unlock
AccountUnlock(self) == [self EXCEPT !.locked = FALSE]

\* ---------------------------------------------------------- processor.rs

Clients == 1..NumClients

TxIds == 1..NumTx

\* The amounts on the grid that commands carry: whole numbers of units from
\* zero to one past the maximum, and the values around a rounding tie on
\* either side of zero.
AmountValues ==
    { u * ONE_UNIT_AS_AMOUNT : u \in 0..(MAX_EXACT_UNITS + 1) }
        \cup {0 - 5, 0 - 4, 4, 5}

\* A deposit or withdrawal carries any of them or none; a dispute, resolve or
\* chargeback, whose amount column is empty in the input format, none or one.
AmountsOf(command_type) ==
    IF command_type \in {"Deposit", "Withdrawal"}
    THEN {<<>>} \cup { <<num>> : num \in AmountValues }
    ELSE {<<>>, <<ONE_UNIT_AS_AMOUNT>>}

Commands ==
    UNION { [command_type : {ct}, client : Clients, tx : TxIds,
             amount : AmountsOf(ct)] : ct \in CommandTypes }

WithdrawTransaction(client, amount) ==
    [kind |-> "WithdrawTransaction", client |-> client, amount |-> amount,
     state |-> "-"]

DepositTransaction(client, amount, state) ==
    [kind |-> "DepositTransaction", client |-> client, amount |-> amount,
     state |-> state]

VARIABLES
    accounts,       \* Processor.accounts: client id -> Account
    transactions,   \* Processor.transactions: tx id -> Transaction
    executed,       \* <<[command_type, client, tx]>> of the command execute
                    \* was just called with; <<>> between two calls
    ret,            \* <<result>> that call returned; <<>> between two calls
    pc,             \* where run_processor stands in its loop
    replay,         \* a second Processor, [accounts, transactions], that is
                    \* given the commands of the stream whose execute
                    \* succeeded and none of the others
    output,         \* what print_accounts has written: <<>> nothing yet,
                    \* <<rows>> the rows of the accounts it was given
    fdiv,           \* the f64 division in progress while an amount is
                    \* converted, <<>> when there is none
    succeeded       \* what the commands that succeeded so far say of each
                    \* transaction id, kept from the commands and their
                    \* results alone: the clients whose deposit with that
                    \* id succeeded, and whether a dispute of it succeeded
                    \* with no resolve of it succeeding since

vars ==
    <<accounts, transactions, executed, ret, pc, replay, output, fdiv,
      succeeded>>

\* dispute_step without its check of the record's client
dispute_step_any_client(account, transaction, expected_state, next_state) ==
    IF transaction = <<>> THEN Err("transaction not found")
    ELSE LET t == transaction[1]
         IN  IF t.kind = "DepositTransaction"
             THEN IF t.state # expected_state
                  THEN Err("disputed transaction is in a wrong state")
                  ELSE Ok(<<t.amount,
                            DepositTransaction(t.client, t.amount, next_state)>>)
             ELSE Err("transaction is not deposit transaction")

\* dispute_step matching on the fields only, whatever the variant
dispute_step_any_variant(account, transaction, expected_state, next_state) ==
    IF transaction = <<>> THEN Err("transaction not found")
    ELSE LET t == transaction[1]
         IN  IF t.client # account.client
             THEN Err("transaction references different client")
             ELSE IF t.state # expected_state
             THEN Err("disputed transaction is in a wrong state")
             ELSE Ok(<<t.amount,
                       DepositTransaction(t.client, t.amount, next_state)>>)

\* dispute_step without its check of the record's state
dispute_step_any_state(account, transaction, expected_state, next_state) ==
    IF transaction = <<>> THEN Err("transaction not found")
    ELSE LET t == transaction[1]
         IN  IF t.kind = "DepositTransaction"
             THEN IF t.client # account.client
                  THEN Err("transaction references different client")
                  ELSE Ok(<<t.amount,
                            DepositTransaction(t.client, t.amount, next_state)>>)
             ELSE Err("transaction is not deposit transaction")

\* Processor::dispute_step; the Ok value is the pair <<amount, new_transaction>>
dispute_step(account, transaction, expected_state, next_state) ==
    IF transaction = <<>> THEN Err("transaction not found")
    ELSE LET t == transaction[1]
         IN  IF t.kind = "DepositTransaction"
             THEN IF t.client # account.client
                  THEN Err("transaction references different client")
                  ELSE IF t.state # expected_state
                  THEN Err("disputed transaction is in a wrong state")
                  ELSE Ok(<<t.amount,
                            DepositTransaction(t.client, t.amount, next_state)>>)
             ELSE Err("transaction is not deposit transaction")

\* The Withdrawal arm of Processor::apply_command
ApplyWithdrawal(cmd, account, transaction) ==
    IF transaction # <<>> THEN Err("transaction already exists")
    ELSE LET moneys == get_moneys(cmd)
         IN  IF ~moneys.ok THEN Err(moneys.err)
             ELSE LET new_account == AccountWithdraw(account, moneys.val)
                  IN  IF ~new_account.ok THEN Err(new_account.err)
                      ELSE Ok(<<new_account.val,
                                WithdrawTransaction(account.client, moneys.val)>>)

\* The Deposit arm reading the amount before it looks for an existing record
ApplyDeposit_amount_first(cmd, account, transaction) ==
    LET moneys == get_moneys(cmd)
    IN  IF ~moneys.ok THEN Err(moneys.err)
        ELSE IF transaction # <<>> THEN Err("transaction already exists")
        ELSE LET new_account == AccountDeposit(account, moneys.val)
             IN  IF ~new_account.ok THEN Err(new_account.err)
                 ELSE Ok(<<new_account.val,
                           DepositTransaction(account.client, moneys.val,
                                              "Deposited")>>)

\* The Deposit arm without its check that the transaction id is new
ApplyDeposit_no_duplicate_check(cmd, account, transaction) ==
    LET moneys == get_moneys(cmd)
    IN  IF ~moneys.ok THEN Err(moneys.err)
        ELSE LET new_account == AccountDeposit(account, moneys.val)
             IN  IF ~new_account.ok THEN Err(new_account.err)
                 ELSE Ok(<<new_account.val,
                           DepositTransaction(account.client, moneys.val,
                                              "Deposited")>>)

\* The Deposit arm of Processor::apply_command
ApplyDeposit(cmd, account, transaction) ==
    IF transaction # <<>> THEN Err("transaction already exists")
    ELSE LET moneys == get_moneys(cmd)
         IN  IF ~moneys.ok THEN Err(moneys.err)
             ELSE LET new_account == AccountDeposit(account, moneys.val)
                  IN  IF ~new_account.ok THEN Err(new_account.err)
                      ELSE Ok(<<new_account.val,
                                DepositTransaction(account.client, moneys.val,
                                                   "Deposited")>>)

\* The Dispute arm of Processor::apply_command
ApplyDispute(account, transaction) ==
    LET step == dispute_step(account, transaction, "Deposited", "Disputed")
    IN  IF ~step.ok THEN Err(step.err)
        ELSE LET new_account == AccountDispute(account, step.val[1])
             IN  IF ~new_account.ok THEN Err(new_account.err)
                 ELSE Ok(<<new_account.val, step.val[2]>>)

\* The Resolve arm of Processor::apply_command
ApplyResolve(account, transaction) ==
    LET step == dispute_step(account, transaction, "Disputed", "Deposited")
    IN  IF ~step.ok THEN Err(step.err)
        ELSE LET new_account == AccountResolve(account, step.val[1])
             IN  IF ~new_account.ok THEN Err(new_account.err)
                 ELSE Ok(<<new_account.val, step.val[2]>>)

\* The Chargeback arm of Processor::apply_command
ApplyChargeback(account, transaction) ==
    LET step == dispute_step(account, transaction, "Disputed", "ChargedBack")
    IN  IF ~step.ok THEN Err(step.err)
        ELSE LET new_account == AccountChargeback(account, step.val[1])
             IN  IF ~new_account.ok THEN Err(new_account.err)
                 ELSE Ok(<<new_account.val, step.val[2]>>)

\* is_locked answering that no account is locked
is_locked_never(account) == FALSE

\* Account::is_locked, as apply_command consults it before anything else
is_locked(account) == account.locked

\* apply_command with the lock check made for deposits and withdrawals only
apply_command_lock_on_funds_only(cmd, account, transaction) ==
    CASE cmd.command_type = "Withdrawal" ->
             IF is_locked(account) THEN Err("locked account")
             ELSE ApplyWithdrawal(cmd, account, transaction)
      [] cmd.command_type = "Deposit" ->
             IF is_locked(account) THEN Err("locked account")
             ELSE ApplyDeposit(cmd, account, transaction)
      [] cmd.command_type = "Dispute" ->
             ApplyDispute(account, transaction)
      [] cmd.command_type = "Resolve" ->
             ApplyResolve(account, transaction)
      [] cmd.command_type = "Chargeback" ->
             ApplyChargeback(account, transaction)

\* apply_command reading the amount of the command before it looks at the
\* command's type
apply_command_amount_required(cmd, account, transaction) ==
    IF is_locked(account) THEN Err("locked account")
    ELSE IF ~get_moneys(cmd).ok THEN Err(get_moneys(cmd).err)
    ELSE CASE cmd.command_type = "Withdrawal" ->
                  ApplyWithdrawal(cmd, account, transaction)
           [] cmd.command_type = "Deposit" ->
                  ApplyDeposit(cmd, account, transaction)
           [] cmd.command_type = "Dispute" ->
                  ApplyDispute(account, transaction)
           [] cmd.command_type = "Resolve" ->
                  ApplyResolve(account, transaction)
           [] cmd.command_type = "Chargeback" ->
                  ApplyChargeback(account, transaction)

\* Processor::apply_command; the Ok value is <<new_account, new_transaction>>
apply_command(cmd, account, transaction) ==
    IF is_locked(account) THEN Err("locked account")
    ELSE CASE cmd.command_type = "Withdrawal" ->
                  ApplyWithdrawal(cmd, account, transaction)
           [] cmd.command_type = "Deposit" ->
                  ApplyDeposit(cmd, account, transaction)
           [] cmd.command_type = "Dispute" ->
                  ApplyDispute(account, transaction)
           [] cmd.command_type = "Resolve" ->
                  ApplyResolve(account, transaction)
           [] cmd.command_type = "Chargeback" ->
                  ApplyChargeback(account, transaction)

\* insert leaving the new entry alone in the map
Insert_dropping_the_rest(map, k, v) == (k :> v)

\* HashMap::insert
Insert(map, k, v) == (k :> v) @@ map

\* The account execute hands to apply_command: the stored one, or a new one
ResolveAccount(accts, client) ==
    IF client \in DOMAIN accts THEN accts[client] ELSE AccountNew(client)

\* The transaction execute hands to apply_command: Some(stored) or None
ResolveTransaction(txs, tx) ==
    IF tx \in DOMAIN txs THEN <<txs[tx]>> ELSE <<>>

\* execute storing the account it resolved before it applies the command
execute_stores_resolved_account(cmd) ==
    LET account == ResolveAccount(accounts, cmd.client)
        transaction == ResolveTransaction(transactions, cmd.tx)
        r == apply_command(cmd, account, transaction)
    IN  IF r.ok
        THEN [ret |-> Ok(<<>>),
              accounts |-> Insert(accounts, cmd.client, r.val[1]),
              transactions |-> Insert(transactions, cmd.tx, r.val[2])]
        ELSE [ret |-> Err(r.err),
              accounts |-> Insert(accounts, cmd.client, account),
              transactions |-> transactions]

\* Processor::execute on a Processor whose maps are accts and txs: what it
\* returns and what the two maps hold when it has returned
execute_on(accts, txs, cmd) ==
    LET account == ResolveAccount(accts, cmd.client)
        transaction == ResolveTransaction(txs, cmd.tx)
        r == apply_command(cmd, account, transaction)
    IN  IF r.ok
        THEN [ret |-> Ok(<<>>),
              accounts |-> Insert(accts, cmd.client, r.val[1]),
              transactions |-> Insert(txs, cmd.tx, r.val[2])]
        ELSE [ret |-> Err(r.err),
              accounts |-> accts,
              transactions |-> txs]

\* Processor::execute on the Processor run_processor was given
execute(cmd) == execute_on(accounts, transactions, cmd)

\* Before any command: no deposit succeeded, no dispute is open
NothingSucceeded ==
    [t \in TxIds |-> [deposited_by |-> {}, disputed |-> FALSE]]

\* One more command of the stream has succeeded
NoteSuccess(s, cmd) ==
    CASE cmd.command_type = "Deposit" ->
             [s EXCEPT ![cmd.tx].deposited_by = @ \cup {cmd.client}]
      [] cmd.command_type = "Dispute" ->
             [s EXCEPT ![cmd.tx].disputed = TRUE]
      [] cmd.command_type = "Resolve" ->
             [s EXCEPT ![cmd.tx].disputed = FALSE]
      [] OTHER -> s

\* processor.execute(&command) runs to completion on a well-formed command
Call(cmd) ==
    /\ pc = "read"
    /\ LET out == execute(cmd)
       IN  /\ accounts' = out.accounts
           /\ transactions' = out.transactions
           /\ ret' = <<out.ret>>
           /\ succeeded' = IF out.ret.ok THEN NoteSuccess(succeeded, cmd)
                                         ELSE succeeded
    /\ executed' = <<[command_type |-> cmd.command_type,
                      client |-> cmd.client, tx |-> cmd.tx]>>
    /\ pc' = "executed"

\* run_processor: the reader yields a well-formed command and
\* processor.execute(&command) runs to completion on it
Execute(cmd) ==
    /\ Call(cmd)
    /\ UNCHANGED <<replay, output, fdiv>>

\* The loop body ending with the error of execute handed on to the caller
EndIteration_stop_on_error ==
    /\ pc = "executed"
    /\ executed' = <<>>
    /\ ret' = <<>>
    /\ pc' = IF ret[1].ok THEN "read" ELSE "failed"
    /\ UNCHANGED <<accounts, transactions, replay, output, fdiv, succeeded>>

\* run_processor: the loop body ends; the result is dropped whether it was Ok
\* or Err, and the loop goes on to the next record
EndIteration ==
    /\ pc = "executed"
    /\ executed' = <<>>
    /\ ret' = <<>>
    /\ pc' = "read"
    /\ UNCHANGED <<accounts, transactions, replay, output, fdiv, succeeded>>

\* Processor::accounts: the stored accounts in no particular order, as the bag
\* of the values (each with the number of keys it is stored under)
accounts_snapshot ==
    [a \in {accounts[c] : c \in DOMAIN accounts} |->
        Cardinality({c \in DOMAIN accounts : accounts[c] = a})]

\* Processor::default, and run_processor about to read the first record
Init ==
    /\ accounts = <<>>
    /\ transactions = <<>>
    /\ executed = <<>>
    /\ ret = <<>>
    /\ pc = "read"
    /\ replay = [accounts |-> <<>>, transactions |-> <<>>]
    /\ output = <<>>
    /\ fdiv = <<>>
    /\ succeeded = NothingSucceeded

Next ==
    \/ \E cmd \in Commands : Execute(cmd)
    \/ EndIteration

Spec == Init /\ [][Next]_vars

\* ------------------------------- the Processor used as a library: unlock

\* Processor::unlock: what it returns and the account map it leaves
unlock(client) ==
    IF client \notin DOMAIN accounts
    THEN [ret |-> Err("client not found"), accounts |-> accounts]
    ELSE IF ~is_locked(accounts[client])
    THEN [ret |-> Err("account not locked"), accounts |-> accounts]
    ELSE [ret |-> Ok(<<>>),
          accounts |-> [accounts EXCEPT ![client] = AccountUnlock(@)]]

\* A caller holding the Processor calls unlock(client) between two commands
Unlock(client) ==
    /\ pc = "read"
    /\ LET out == unlock(client)
       IN  /\ accounts' = out.accounts
           /\ ret' = <<out.ret>>
    /\ executed' = <<[command_type |-> "Unlock", client |-> client]>>
    /\ pc' = "executed"
    /\ UNCHANGED <<transactions, replay, output, fdiv, succeeded>>

\* The commands that caller issues: deposits and withdrawals of no amount, of
\* nothing and of one unit; disputes, resolves and chargebacks as the input
\* format has them, without an amount
AdminCommands ==
    {cmd \in Commands :
        IF cmd.command_type \in {"Deposit", "Withdrawal"}
        THEN cmd.amount \in {<<>>, <<ZERO>>, <<ONE_UNIT_AS_AMOUNT>>}
        ELSE cmd.amount = <<>>}

NextAdmin ==
    \/ \E cmd \in AdminCommands : Execute(cmd)
    \/ \E client \in Clients : Unlock(client)
    \/ EndIteration

SpecAdmin == Init /\ [][NextAdmin]_vars

\* --------------------------------- account.rs: an Account used on its own

\* The methods of Account that change it
AccountMethods ==
    {"deposit", "withdraw", "dispute", "resolve", "chargeback", "unlock"}

\* What a call comes with: unlock takes nothing, the others a Moneys
ArgumentsOf(method) ==
    IF method = "unlock" THEN {<<>>}
    ELSE { <<amount>> : amount \in 0..MAX_EXACT_UNITS }

\* self.method(amount); unlock, which returns nothing, is given the result
\* Ok(the account it leaves)
AccountApply(method, self, argument) ==
    CASE method = "deposit" -> AccountDeposit(self, argument[1])
      [] method = "withdraw" -> AccountWithdraw(self, argument[1])
      [] method = "dispute" -> AccountDispute(self, argument[1])
      [] method = "resolve" -> AccountResolve(self, argument[1])
      [] method = "chargeback" -> AccountChargeback(self, argument[1])
      [] method = "unlock" -> Ok(AccountUnlock(self))

\* The calls made so far with one more, the last three of them kept
LastCalls(calls, call) ==
    IF Len(calls) < 3 THEN Append(calls, call) ELSE Append(Tail(calls), call)

\* A holder of one Account calls a method on it, as the tests of account.rs
\* do, and goes on with the account returned; after a call that failed it
\* goes on with the account it had. `accounts` holds that one account under
\* its client, `executed` the last calls with what each returned.
AccountCall(method, argument) ==
    /\ pc = "account"
    /\ \E c \in DOMAIN accounts :
         LET r == AccountApply(method, accounts[c], argument)
         IN  /\ accounts' = IF r.ok THEN (c :> r.val) ELSE accounts
             /\ ret' = <<r>>
             /\ executed' = LastCalls(executed,
                                      [method |-> method, argument |-> argument,
                                       self |-> accounts[c], ret |-> r])
    /\ UNCHANGED <<transactions, pc, replay, output, fdiv, succeeded>>

\* Account::new(client)
InitAccount ==
    /\ \E c \in Clients : accounts = (c :> AccountNew(c))
    /\ transactions = <<>>
    /\ executed = <<>>
    /\ ret = <<>>
    /\ pc = "account"
    /\ replay = [accounts |-> <<>>, transactions |-> <<>>]
    /\ output = <<>>
    /\ fdiv = <<>>
    /\ succeeded = NothingSucceeded

NextAccount ==
    \E method \in AccountMethods : \E argument \in ArgumentsOf(method) :
        AccountCall(method, argument)

SpecAccount == InitAccount /\ [][NextAccount]_vars

\* ----------------------------- moneys.rs at full width: u64 and f64 values
\*
\* The ledger above counts money in a scaled range. The definitions below
\* compute Moneys::add, Moneys::sub and the conversions on the values of the
\* source: units up to 10^14 held in an unsigned 64-bit integer, amounts held
\* in an IEEE 754 double. A natural number below 2^90 is written as three
\* limbs of 30 bits, the lowest first.

Limb == 2 ^ 30

WideOf(i) == <<i, 0, 0>>

WAdd(a, b) ==
    LET s1 == a[1] + b[1]
        s2 == a[2] + b[2] + (s1 \div Limb)
        s3 == a[3] + b[3] + (s2 \div Limb)
    IN  <<s1 % Limb, s2 % Limb, s3>>

WLess(a, b) ==
    \/ a[3] < b[3]
    \/ a[3] = b[3] /\ a[2] < b[2]
    \/ a[3] = b[3] /\ a[2] = b[2] /\ a[1] < b[1]

\* a - b, for b not above a
WSub(a, b) ==
    LET d1 == a[1] - b[1]
        b1 == IF d1 < 0 THEN 1 ELSE 0
        d2 == a[2] - b[2] - b1
        b2 == IF d2 < 0 THEN 1 ELSE 0
    IN  <<d1 + b1 * Limb, d2 + b2 * Limb, a[3] - b[3] - b2>>

WDouble(a) == WAdd(a, a)

WHalve(a) ==
    <<a[1] \div 2 + (a[2] % 2) * (Limb \div 2),
      a[2] \div 2 + (a[3] % 2) * (Limb \div 2),
      a[3] \div 2>>

WOdd(a) == a[1] % 2 = 1

\* Bit i of a, bit 0 the lowest
WBit(a, i) == (a[(i \div 30) + 1] \div (2 ^ (i % 30))) % 2

WTimesTen(a) == WAdd(WDouble(WDouble(WDouble(a))), WDouble(a))

RECURSIVE WPowerOfTen(_)
WPowerOfTen(n) == IF n = 0 THEN WideOf(1) ELSE WTimesTen(WPowerOfTen(n - 1))

\* Moneys::MAX_EXACT_UNITS as the source has it: 100_000_000_000_000
MAX_EXACT_UNITS_U64 == WPowerOfTen(14)

\* self.0 + other.0 on u32 values: the sum kept to 32 bits
U32Add(a, b) ==
    LET sum == WAdd(a, b)
    IN  [sum |-> <<sum[1], sum[2] % 4, 0>>,
         wrapped |-> sum # <<sum[1], sum[2] % 4, 0>>]

\* self.0 + other.0 on u64 values: the sum kept to 64 bits, and whether bits
\* were lost in that (where a debug build panics and a release build goes on
\* with the sum that wrapped)
U64Add(a, b) ==
    LET sum == WAdd(a, b)
    IN  [sum |-> <<sum[1], sum[2], sum[3] % 16>>,
         wrapped |-> sum # <<sum[1], sum[2], sum[3] % 16>>]

\* Moneys::add on u64 units. The Ok value is the sum; `wrapped` tells whether
\* the u64 addition inside lost bits.
add(self, other) ==
    LET s == U64Add(self, other)
    IN  [result |-> IF WLess(MAX_EXACT_UNITS_U64, s.sum)
                    THEN Err("addition overflow")
                    ELSE Ok(s.sum),
         wrapped |-> s.wrapped]

\* Moneys::sub on u64 units
sub(self, other) ==
    [result |-> IF WLess(self, other)
                THEN Err("subtraction underflow")
                ELSE Ok(WSub(self, other)),
     wrapped |-> FALSE]

\* An f64 is [kind, neg, m, e]: kind "finite" stands for the number
\* (-1)^neg * m * 2^e, where m is zero or has exactly 53 bits; kinds "inf"
\* and "nan" are the infinities and the not-a-number.

F64(neg, m, e) == [kind |-> "finite", neg |-> neg, m |-> m, e |-> e]

F64Zero(neg) == F64(neg, WideOf(0), 0)

\* The f64 division of the natural A by the natural B, both below 2^60 and
\* not zero, bit by bit: Q is the quotient of the bits of A read so far, from
\* bit 59 down, by B, and R what is left of them; i is the bit read next,
\* zeros being read below bit 0.
DivisionOf(A, B) ==
    [A |-> A, B |-> B, i |-> 59, Q |-> WideOf(0), R |-> WideOf(0)]

\* Q has the 55 bits from which the 53 of the result are rounded
DivisionDone(d) == ~WLess(d.Q, <<0, 2 ^ 24, 0>>)

DivisionStep(d) ==
    LET bit == IF d.i >= 0 THEN WBit(d.A, d.i) ELSE 0
        R2 == WAdd(WDouble(d.R), WideOf(bit))
        fits == ~WLess(R2, d.B)
    IN  [d EXCEPT !.i = d.i - 1,
                  !.Q = WAdd(WDouble(d.Q), WideOf(IF fits THEN 1 ELSE 0)),
                  !.R = IF fits THEN WSub(R2, d.B) ELSE R2]

\* The quotient rounded to 53 bits, to the nearest and on a tie to the even
\* one, as IEEE 754 division rounds: A / B is about Q * 2^(i + 1), the two
\* lowest bits of Q and R say which way the rest goes.
DivisionResult(d) ==
    LET m0 == WHalve(WHalve(d.Q))
        rest == 2 * WBit(d.Q, 1) + WBit(d.Q, 0)
        up == \/ rest = 3
              \/ rest = 2 /\ (d.R # WideOf(0) \/ WOdd(m0))
        m1 == IF up THEN WAdd(m0, WideOf(1)) ELSE m0
    IN  IF m1 = <<0, 2 ^ 23, 0>>
        THEN [m |-> <<0, 2 ^ 22, 0>>, e |-> d.i + 4]
        ELSE [m |-> m1, e |-> d.i + 3]

\* Moneys::ONE_UNIT_AS_AMOUNT as the compiler has it: the f64 nearest to
\* 0.0001, which is 0x1.a36e2eb1c432dp-14 = 7378697629483821 * 2^-66
ONE_UNIT_AS_AMOUNT_F64 == F64(FALSE, <<723272493, 6871947, 0>>, 0 - 66)

\* a shifted right by s bits, s in 0..59
WShiftRight(a, s) ==
    LET limb(j) == IF j <= 3 THEN a[j] ELSE 0
        skip == s \div 30
        b == s % 30
    IN  [j \in 1..3 |->
            (limb(j + skip) \div (2 ^ b))
              + (limb(j + skip + 1) % (2 ^ b)) * (2 ^ (30 - b))]

\* f64::round: the nearest whole number, halves away from zero, as the whole
\* number `whole` * 2^e with e = 0 unless the f64 was 2^53 or more
F64Round(x) ==
    IF x.kind # "finite" THEN x
    ELSE IF x.e >= 0 THEN [kind |-> "finite", neg |-> x.neg, whole |-> x.m, e |-> x.e]
    ELSE IF x.e <= 0 - 54
    THEN [kind |-> "finite", neg |-> x.neg, whole |-> WideOf(0), e |-> 0]
    ELSE LET t == WShiftRight(x.m, (0 - x.e) - 1)
         IN  [kind |-> "finite", neg |-> x.neg,
              whole |-> IF WOdd(t) THEN WAdd(WHalve(t), WideOf(1)) ELSE WHalve(t),
              e |-> 0]

\* impl TryFrom<f64> for Moneys from the comparisons on: units is the rounded
\* quotient. A NaN passes both comparisons and `as u64` makes it 0.
TryFromRounded(units) ==
    CASE units.kind = "nan" -> Ok(WideOf(0))
      [] units.kind = "inf" ->
             IF units.neg THEN Err("negative money value")
             ELSE Err("money value too big")
      [] units.kind = "finite" ->
             IF units.neg /\ units.whole # WideOf(0)
             THEN Err("negative money value")
             ELSE IF units.e > 0 \/ WLess(MAX_EXACT_UNITS_U64, units.whole)
             THEN Err("money value too big")
             ELSE Ok(units.whole)

\* How far from 0, from 1.0 and from the maximum the sampled values go
Span == 2

\* The Moneys the arithmetic is called with: the lowest, the highest, and
\* two halves of the maximum whose sums fall on either side of it
MoneysSamples ==
    { WideOf(i) : i \in 0..Span }
        \cup { WSub(MAX_EXACT_UNITS_U64, WideOf(i)) : i \in 0..Span }
        \cup { WHalve(MAX_EXACT_UNITS_U64),
               WAdd(WHalve(MAX_EXACT_UNITS_U64), WideOf(1)) }

\* The decimal texts converted: a number of units (of 0.0001) around 0,
\* 1.0 and the maximum, followed by a fifth decimal, with or without a sign
UnitsSamples ==
    { WideOf(i) : i \in 0..Span }
        \cup { WideOf(10 ^ 4) }
        \cup { WSub(MAX_EXACT_UNITS_U64, WideOf(i)) : i \in 0..Span }
        \cup { WAdd(MAX_EXACT_UNITS_U64, WideOf(i)) : i \in 1..Span }

\* The f64 values that are no number
NonFinite ==
    { [kind |-> "nan", neg |-> FALSE],
      [kind |-> "inf", neg |-> FALSE], [kind |-> "inf", neg |-> TRUE] }

\* a.add(b) or a.sub(b) is called and returns
MoneysCall(method, self, other) ==
    /\ pc = "moneys"
    /\ executed' = <<[method |-> method, self |-> self, other |-> other]>>
    /\ ret' = <<IF method = "add" THEN add(self, other) ELSE sub(self, other)>>
    /\ pc' = "returned"
    /\ UNCHANGED <<accounts, transactions, replay, output, fdiv, succeeded>>

\* Moneys::try_from(&str) is called with the text of units * 0.0001 +
\* fifth * 0.00001 and s.parse::<f64>() starts on it: the f64 nearest to
\* (10 * units + fifth) / 10^5. Nothing is to be divided when that is zero.
TryFromStr(neg, units, fifth) ==
    /\ pc = "moneys"
    /\ executed' = <<[method |-> "try_from",
                      text |-> [neg |-> neg, units |-> units, fifth |-> fifth],
                      num |-> <<>>, quotient |-> <<>>]>>
    /\ LET n == WAdd(WTimesTen(units), WideOf(fifth))
       IN  IF n = WideOf(0)
           THEN /\ ret' = <<TryFromRounded(F64Round(F64Zero(neg)))>>
                /\ fdiv' = <<>>
                /\ pc' = "returned"
           ELSE /\ ret' = <<>>
                /\ fdiv' = <<[div |-> DivisionOf(n, WideOf(10 ^ 5)),
                              neg |-> neg, e |-> 0]>>
                /\ pc' = "parsing"
    /\ UNCHANGED <<accounts, transactions, replay, output, succeeded>>

\* One more bit of the quotient
DivideStep ==
    /\ pc \in {"parsing", "dividing"}
    /\ ~DivisionDone(fdiv[1].div)
    /\ fdiv' = <<[fdiv[1] EXCEPT !.div = DivisionStep(@)]>>
    /\ UNCHANGED <<accounts, transactions, executed, ret, pc, replay,
                   output, succeeded>>

\* The f64 of the division that has ended
Quotient ==
    LET r == DivisionResult(fdiv[1].div)
    IN  F64(fdiv[1].neg, r.m, r.e + fdiv[1].e)

\* s.parse::<f64>() returns num, and Moneys::try_from(num) starts on
\* num / Self::ONE_UNIT_AS_AMOUNT
Parsed ==
    /\ pc = "parsing"
    /\ DivisionDone(fdiv[1].div)
    /\ executed' = <<[executed[1] EXCEPT !.num = <<Quotient>>]>>
    /\ fdiv' = <<[div |-> DivisionOf(Quotient.m, ONE_UNIT_AS_AMOUNT_F64.m),
                  neg |-> Quotient.neg,
                  e |-> Quotient.e - ONE_UNIT_AS_AMOUNT_F64.e]>>
    /\ pc' = "dividing"
    /\ UNCHANGED <<accounts, transactions, ret, replay, output, succeeded>>

\* impl TryFrom<f64> for Moneys: the quotient is there; it is rounded,
\* compared and converted
TryFromReturns ==
    /\ pc = "dividing"
    /\ DivisionDone(fdiv[1].div)
    /\ executed' = <<[executed[1] EXCEPT !.quotient = <<Quotient>>]>>
    /\ ret' = <<TryFromRounded(F64Round(Quotient))>>
    /\ fdiv' = <<>>
    /\ pc' = "returned"
    /\ UNCHANGED <<accounts, transactions, replay, output, succeeded>>

\* impl TryFrom<f64> for Moneys on an f64 that is no number: the quotient
\* is that f64 again, and so is what round() makes of it
TryFromNonFinite(num) ==
    /\ pc = "moneys"
    /\ executed' = <<[method |-> "try_from", text |-> <<>>,
                      num |-> <<num>>, quotient |-> <<num>>]>>
    /\ ret' = <<TryFromRounded(F64Round(num))>>
    /\ pc' = "returned"
    /\ UNCHANGED <<accounts, transactions, replay, output, fdiv, succeeded>>

InitMoneys ==
    /\ accounts = <<>>
    /\ transactions = <<>>
    /\ executed = <<>>
    /\ ret = <<>>
    /\ pc = "moneys"
    /\ replay = [accounts |-> <<>>, transactions |-> <<>>]
    /\ output = <<>>
    /\ fdiv = <<>>
    /\ succeeded = NothingSucceeded

NextMoneys ==
    \/ \E method \in {"add", "sub"} : \E self \in MoneysSamples :
          \E other \in MoneysSamples : MoneysCall(method, self, other)
    \/ \E neg \in BOOLEAN : \E units \in UnitsSamples : \E fifth \in 0..9 :
          TryFromStr(neg, units, fifth)
    \/ DivideStep
    \/ Parsed
    \/ TryFromReturns
    \/ \E num \in NonFinite : TryFromNonFinite(num)

SpecMoneys == InitMoneys /\ [][NextMoneys]_vars

\* ------------------------------------------- lib.rs and main.rs: one run

\* impl From<Moneys> for f64: the amount a number of units stands for
MoneysToAmount(units) == units * ONE_UNIT_AS_AMOUNT

\* four_decimal_places: the text format!("{:.04}", x) writes, as the number
\* of 10^-4 it reads as
four_decimal_places(x) ==
    IF x >= 0
    THEN (2 * x + ONE_UNIT_AS_AMOUNT) \div (2 * ONE_UNIT_AS_AMOUNT)
    ELSE 0 - ((2 * (0 - x) + ONE_UNIT_AS_AMOUNT) \div (2 * ONE_UNIT_AS_AMOUNT))

\* impl From<Account> for io::Account, as the row the csv writer serializes
IoAccount(account) ==
    [client |-> account.client,
     available |-> four_decimal_places(MoneysToAmount(account.available)),
     held |-> four_decimal_places(MoneysToAmount(account.held)),
     total |-> four_decimal_places(MoneysToAmount(account.available)
                                   + MoneysToAmount(account.held)),
     locked |-> account.locked]

\* print_accounts on processor.accounts(): the rows written, each with the
\* number of times it is written
print_accounts ==
    [row \in {IoAccount(accounts[c]) : c \in DOMAIN accounts} |->
        Cardinality({c \in DOMAIN accounts : IoAccount(accounts[c]) = row})]

\* run_processor: the reader yields a well-formed command and execute runs on
\* it. The replay Processor is given the command only if that call succeeded.
RunExecute(cmd) ==
    /\ Call(cmd)
    /\ replay' =
         IF execute(cmd).ret.ok
         THEN LET out == execute_on(replay.accounts, replay.transactions, cmd)
              IN  [accounts |-> out.accounts, transactions |-> out.transactions]
         ELSE replay
    /\ UNCHANGED <<output, fdiv>>

\* run_processor: the reader yields an error for a record it cannot
\* deserialize; `result?` returns it from run_processor, and the `?` in main
\* returns it from main
ReadMalformed ==
    /\ pc = "read"
    /\ pc' = "failed"
    /\ UNCHANGED <<accounts, transactions, executed, ret, replay, output,
                   fdiv, succeeded>>

\* run_processor: the reader is exhausted and run_processor returns Ok(())
EndOfStream ==
    /\ pc = "read"
    /\ pc' = "finished"
    /\ UNCHANGED <<accounts, transactions, executed, ret, replay, output,
                   fdiv, succeeded>>

\* main writing the accounts whatever run_processor returned
PrintAccounts_ignoring_error ==
    /\ pc \in {"finished", "failed"}
    /\ output' = <<print_accounts>>
    /\ pc' = "printed"
    /\ UNCHANGED <<accounts, transactions, executed, ret, replay, fdiv,
                   succeeded>>

\* main: run_processor returned Ok, the accounts are gathered and written
PrintAccounts ==
    /\ pc = "finished"
    /\ output' = <<print_accounts>>
    /\ pc' = "printed"
    /\ UNCHANGED <<accounts, transactions, executed, ret, replay, fdiv,
                   succeeded>>

NextRun ==
    \/ \E cmd \in Commands : RunExecute(cmd)
    \/ EndIteration
    \/ ReadMalformed
    \/ EndOfStream
    \/ PrintAccounts

SpecRun == Init /\ [][NextRun]_vars

\* ------------------------------------------------------------ properties

\* The step in which execute is called and returns
ExecuteStep == pc = "read" /\ pc' = "executed"

\* The command that step was called with, and what it returned
CalledWith == executed'[1]

Returned == ret'[1]

\* In the state execute returned to: the call, and whether it was this one
Called == executed[1]

CallReturned(command_type, result) ==
    /\ pc = "executed"
    /\ Called.command_type = command_type
    /\ ret[1] = result

\* The step is a successful call of this type for this transaction id
Succeeds(command_type, tx) ==
    /\ ExecuteStep
    /\ Returned.ok
    /\ CalledWith.command_type = command_type
    /\ CalledWith.tx = tx

\* C1: whenever execute returns an error, the account map and the transaction
\* map are exactly what they were before the call.
C1_FailedExecuteMutatesNothing ==
    [][(ExecuteStep /\ ~Returned.ok)
         => (accounts' = accounts /\ transactions' = transactions)]_vars

\* C1 witness: a call failed for a client without an account and a transaction
\* id without a record, in a ledger that already holds something, and neither
\* was created.
C1_Witness ==
    /\ pc = "executed"
    /\ ~ret[1].ok
    /\ accounts # <<>>
    /\ Called.client \notin DOMAIN accounts
    /\ Called.tx \notin DOMAIN transactions

\* C2: a command of any type whose client has a locked account fails with
\* "locked account", whatever its transaction id refers to.
C2_LockedAccountRejectsEverything ==
    [][(/\ ExecuteStep
        /\ CalledWith.client \in DOMAIN accounts
        /\ accounts[CalledWith.client].locked)
         => Returned = Err("locked account")]_vars

\* C2 witness: a resolve by a locked client for a record of another client,
\* which is not even in the state a resolve needs, returned "locked account".
C2_Witness ==
    /\ CallReturned("Resolve", Err("locked account"))
    /\ Called.tx \in DOMAIN transactions
    /\ transactions[Called.tx].client # Called.client
    /\ transactions[Called.tx].state # "Disputed"

\* C3: an account that is locked is the same account, with the same
\* available, held and locked values, after every later step.
C3_LockedAccountNeverChanges ==
    [][\A c \in DOMAIN accounts :
          accounts[c].locked
            => (c \in DOMAIN accounts' /\ accounts'[c] = accounts[c])]_vars

\* C3 witness: a deposit with an unused transaction id was issued for a locked
\* account and was rejected.
C3_Witness ==
    /\ CallReturned("Deposit", Err("locked account"))
    /\ Called.tx \notin DOMAIN transactions
    /\ accounts[Called.client].locked

\* C4: a deposit record's state changes only from Deposited to Disputed by a
\* successful dispute of it, from Disputed to Deposited by a successful
\* resolve, and from Disputed to ChargedBack by a successful chargeback; a
\* withdrawal record never changes, and no record disappears.
C4_RecordStateMachine ==
    [][\A t \in DOMAIN transactions :
          /\ t \in DOMAIN transactions'
          /\ LET old == transactions[t]
                 new == transactions'[t]
             IN  IF old.kind = "WithdrawTransaction"
                 THEN new = old
                 ELSE /\ new.kind = "DepositTransaction"
                      /\ \/ new.state = old.state
                         \/ /\ old.state = "Deposited"
                            /\ new.state = "Disputed"
                            /\ Succeeds("Dispute", t)
                         \/ /\ old.state = "Disputed"
                            /\ new.state = "Deposited"
                            /\ Succeeds("Resolve", t)
                         \/ /\ old.state = "Disputed"
                            /\ new.state = "ChargedBack"
                            /\ Succeeds("Chargeback", t)]_vars

\* C4 witness: a resolve has just taken a record back to Deposited while
\* another record is charged back.
C4_Witness ==
    /\ CallReturned("Resolve", Ok(<<>>))
    /\ transactions[Called.tx].state = "Deposited"
    /\ \E t \in DOMAIN transactions : transactions[t].state = "ChargedBack"

\* C5: a stored record keeps its variant, its client and its amount in every
\* later state.
C5_RecordIdentityIsPermanent ==
    [][\A t \in DOMAIN transactions :
          /\ t \in DOMAIN transactions'
          /\ transactions'[t].kind = transactions[t].kind
          /\ transactions'[t].client = transactions[t].client
          /\ transactions'[t].amount = transactions[t].amount]_vars

\* C5 witness: another client tried to deposit under the transaction id of a
\* record whose state has already moved on, and was refused.
C5_Witness ==
    /\ CallReturned("Deposit", Err("transaction already exists"))
    /\ transactions[Called.tx].client # Called.client
    /\ transactions[Called.tx].state = "Disputed"

\* The account and the record the step's command resolves to, before the call
CallerAccount == ResolveAccount(accounts, CalledWith.client)

Referenced == transactions[CalledWith.tx]

DisputeTypes == {"Dispute", "Resolve", "Chargeback"}

Unchanged == accounts' = accounts /\ transactions' = transactions

\* The sum of the amounts of the records stored under the ids in S
RECURSIVE SumAmounts(_)
SumAmounts(S) ==
    IF S = {} THEN 0
    ELSE LET t == CHOOSE x \in S : TRUE
         IN  transactions[t].amount + SumAmounts(S \ {t})

\* The ids of the deposit records of client c that are under dispute
DisputedOf(c) ==
    { t \in DOMAIN transactions :
        /\ transactions[t].kind = "DepositTransaction"
        /\ transactions[t].client = c
        /\ transactions[t].state = "Disputed" }

\* Client c, if its account is not locked, can deposit nothing under id t
DepositOfNothingAccepted(c, t) ==
    ~ResolveAccount(accounts, c).locked
      => execute([command_type |-> "Deposit", client |-> c, tx |-> t,
                  amount |-> <<0>>]).ret.ok

\* C6: a deposit or withdrawal for an unlocked account under a transaction id
\* that has a record fails with "transaction already exists" and changes
\* nothing, whoever owns the record, whatever its variant or state and whatever
\* amount the command carries (the steps range over every amount of
\* AmountsOf: none, negative and too large included); a transaction id whose
\* deposit or withdrawal failed has no record and a deposit by any unlocked
\* client may use it.
C6_DuplicateTransactionRejected ==
    [][/\ (/\ ExecuteStep
           /\ CalledWith.command_type \in {"Deposit", "Withdrawal"}
           /\ ~CallerAccount.locked
           /\ CalledWith.tx \in DOMAIN transactions)
            => (Returned = Err("transaction already exists") /\ Unchanged)
       /\ (/\ ExecuteStep
           /\ CalledWith.command_type \in {"Deposit", "Withdrawal"}
           /\ ~Returned.ok
           /\ CalledWith.tx \notin DOMAIN transactions)
            => /\ CalledWith.tx \notin DOMAIN transactions'
               /\ \A c \in Clients, t \in TxIds :
                     t = CalledWith.tx => DepositOfNothingAccepted(c, t)']_vars

\* C6 witness: a withdrawal under the transaction id of another client's
\* charged-back deposit was refused as a duplicate.
C6_Witness ==
    /\ CallReturned("Withdrawal", Err("transaction already exists"))
    /\ transactions[Called.tx].client # Called.client
    /\ transactions[Called.tx].state = "ChargedBack"

\* C7 as claimed: a dispute, resolve or chargeback by an unlocked client for
\* any existing record of a different client fails with "transaction
\* references different client" and changes nothing.
C7_AsClaimed ==
    [][(/\ ExecuteStep
        /\ CalledWith.command_type \in DisputeTypes
        /\ ~CallerAccount.locked
        /\ CalledWith.tx \in DOMAIN transactions
        /\ Referenced.client # CalledWith.client)
         => (/\ Returned = Err("transaction references different client")
             /\ Unchanged)]_vars

\* C7, amended: it fails with "transaction references different client" when
\* the record is a deposit, in any state, and with "transaction is not deposit
\* transaction" when the record is a withdrawal; either way nothing changes.
C7_ForeignRecordRejected ==
    [][(/\ ExecuteStep
        /\ CalledWith.command_type \in DisputeTypes
        /\ ~CallerAccount.locked
        /\ CalledWith.tx \in DOMAIN transactions
        /\ Referenced.client # CalledWith.client)
         => (/\ Returned =
                  IF Referenced.kind = "DepositTransaction"
                  THEN Err("transaction references different client")
                  ELSE Err("transaction is not deposit transaction")
             /\ Unchanged)]_vars

\* C7 witness: a chargeback of another client's disputed deposit was refused
\* for the client mismatch.
C7_Witness ==
    /\ CallReturned("Chargeback",
                    Err("transaction references different client"))
    /\ transactions[Called.tx].client # Called.client
    /\ transactions[Called.tx].state = "Disputed"

\* C8: a dispute, resolve or chargeback that names a withdrawal record never
\* succeeds and changes nothing; on an unlocked account it fails with
\* "transaction is not deposit transaction"; and every account's held balance
\* is made up of its disputed deposits alone.
C8_WithdrawalNeverDisputed ==
    [][/\ (/\ ExecuteStep
           /\ CalledWith.command_type \in DisputeTypes
           /\ CalledWith.tx \in DOMAIN transactions
           /\ Referenced.kind = "WithdrawTransaction")
            => (/\ ~Returned.ok
                /\ Unchanged
                /\ ~CallerAccount.locked
                     => Returned = Err("transaction is not deposit transaction"))
       /\ (\A c \in DOMAIN accounts :
              accounts[c].held = SumAmounts(DisputedOf(c)))']_vars

\* C8 witness: a client's dispute of its own withdrawal, of a whole unit, was
\* refused as not being a deposit.
C8_Witness ==
    /\ CallReturned("Dispute", Err("transaction is not deposit transaction"))
    /\ transactions[Called.tx].client = Called.client
    /\ transactions[Called.tx].amount = 1

\* C9: a chargeback succeeds only for a disputed deposit record of the calling
\* client, whose account is unlocked; it takes exactly the record's amount out
\* of held, leaves available as it was, locks the account and leaves the
\* record charged back.
C9_ChargebackEffect ==
    [][(/\ ExecuteStep
        /\ CalledWith.command_type = "Chargeback"
        /\ Returned.ok)
         => LET c == CalledWith.client
                t == CalledWith.tx
            IN  /\ c \in DOMAIN accounts
                /\ ~accounts[c].locked
                /\ t \in DOMAIN transactions
                /\ transactions[t] =
                     DepositTransaction(c, transactions[t].amount, "Disputed")
                /\ accounts'[c] =
                     [client |-> c,
                      available |-> accounts[c].available,
                      held |-> accounts[c].held - transactions[t].amount,
                      locked |-> TRUE]
                /\ accounts[c].held >= transactions[t].amount
                /\ transactions'[t] =
                     DepositTransaction(c, transactions[t].amount,
                                        "ChargedBack")]_vars

\* C9 witness: a chargeback of a whole unit succeeded on an account that still
\* has a unit available.
C9_Witness ==
    /\ CallReturned("Chargeback", Ok(<<>>))
    /\ transactions[Called.tx].amount = 1
    /\ accounts[Called.client].available = 1
    /\ accounts[Called.client].held = 0

\* accounts() holds one account for each client that has an entry, once, and
\* nothing else
SnapshotOnePerClient ==
    LET snapshot == accounts_snapshot
    IN  /\ \A c \in DOMAIN accounts :
              \E a \in DOMAIN snapshot :
                 /\ a.client = c
                 /\ snapshot[a] = 1
                 /\ \A b \in DOMAIN snapshot : b.client = c => b = a
        /\ \A a \in DOMAIN snapshot : a.client \in DOMAIN accounts

\* C10 as claimed: the client of every command has an account, returned by
\* accounts(), from that command on.
C10_AsClaimed ==
    [][/\ ExecuteStep => CalledWith.client \in DOMAIN accounts'
       /\ DOMAIN accounts \subseteq DOMAIN accounts'
       /\ SnapshotOnePerClient']_vars

\* C10, amended: the client of every successful command has an account from
\* that command on, and a failed command creates none; the first successful
\* command of a client is applied to a zero, unlocked account; accounts()
\* returns exactly one account for each client that has had a successful
\* command.
C10_AccountCreatedOnFirstSuccess ==
    [][/\ ExecuteStep =>
            LET c == CalledWith.client
            IN  /\ Returned.ok => c \in DOMAIN accounts'
                /\ ~Returned.ok => DOMAIN accounts' = DOMAIN accounts
                /\ (Returned.ok /\ c \notin DOMAIN accounts)
                     => /\ CalledWith.command_type \in {"Deposit", "Withdrawal"}
                        /\ accounts'[c] =
                             [client |-> c,
                              available |->
                                  IF CalledWith.command_type = "Deposit"
                                  THEN transactions'[CalledWith.tx].amount
                                  ELSE 0,
                              held |-> 0,
                              locked |-> FALSE]
       /\ DOMAIN accounts \subseteq DOMAIN accounts'
       /\ SnapshotOnePerClient']_vars

\* C10 witness: a client's first successful command was a deposit of nothing;
\* accounts() now returns its all-zero account beside another client's.
C10_Witness ==
    /\ CallReturned("Deposit", Ok(<<>>))
    /\ accounts[Called.client] = AccountNew(Called.client)
    /\ Cardinality(DOMAIN accounts) = 2
    /\ Cardinality(DOMAIN accounts_snapshot) = 2
    /\ AccountNew(Called.client) \in DOMAIN accounts_snapshot

\* The ledger of the Processor that was given the whole stream is the ledger
\* of the replay Processor
LedgerIsReplay ==
    /\ accounts = replay.accounts
    /\ transactions = replay.transactions

\* C11: a command whose execute fails does not end the run: the loop goes on
\* to read the next record (where RunExecute takes whatever command comes)
\* with the ledger as it was, and at every point of the run, its end
\* included, the ledger is the one obtained by replaying the stream without
\* the commands that failed.
C11_FailedCommandIsSkipped ==
    /\ [][(pc = "executed" /\ ~ret[1].ok)
           => (pc' = "read" /\ UNCHANGED <<accounts, transactions>>)]_vars
    /\ []LedgerIsReplay

\* C11 witness: execute has just failed on a command of a stream that had
\* already built a ledger with a locked account and a second record, and the
\* replay Processor, which was not given that command, holds the same ledger.
C11_Witness ==
    /\ pc = "executed"
    /\ ~ret[1].ok
    /\ LedgerIsReplay
    /\ \E c \in DOMAIN accounts : accounts[c].locked
    /\ Cardinality(DOMAIN transactions) > 1

\* C12: once a malformed record is read the run is over: no later step
\* happens, so no later record is applied and nothing is ever written; the
\* step that reads the malformed record leaves the ledger built from the
\* preceding records as it is.
C12_MalformedRecordAborts ==
    /\ [][pc # "failed"]_vars
    /\ [][pc' = "failed" => UNCHANGED <<accounts, transactions>>]_vars
    /\ [](pc = "failed" => output = <<>>)

\* C12 witness: the run was aborted by a malformed record after records that
\* were applied, and nothing was written.
C12_Witness ==
    /\ pc = "failed"
    /\ accounts # <<>>
    /\ transactions # <<>>
    /\ output = <<>>

\* The values a Moneys may hold
MoneysRange == 0..MAX_EXACT_UNITS

\* C13: in every state reached by execute and unlock calls, the available and
\* the held of every account and the amount of every record are each within
\* 0..MAX_EXACT_UNITS.
C13_BalancesAndAmountsInRange ==
    /\ \A c \in DOMAIN accounts :
          /\ accounts[c].available \in MoneysRange
          /\ accounts[c].held \in MoneysRange
    /\ \A t \in DOMAIN transactions : transactions[t].amount \in MoneysRange

\* C13 witness: an account whose available and held are both at the maximum,
\* so that their sum is beyond it.
C13_Witness ==
    \E c \in DOMAIN accounts :
        /\ accounts[c].available = MAX_EXACT_UNITS
        /\ accounts[c].held = MAX_EXACT_UNITS
        /\ accounts[c].available + accounts[c].held > MAX_EXACT_UNITS

\* Every amount column a command can come with
AnyAmount == {<<>>} \cup { <<num>> : num \in AmountValues }

\* C15: what a dispute, resolve or chargeback returns and the ledger it
\* leaves are the same whatever the amount of the command: absent, zero,
\* negative, beyond the maximum or anything else.
C15_DisputeIgnoresCommandAmount ==
    pc = "read" =>
        \A ct \in DisputeTypes, c \in Clients, t \in TxIds, amount \in AnyAmount :
            execute([command_type |-> ct, client |-> c, tx |-> t,
                     amount |-> amount])
              = execute([command_type |-> ct, client |-> c, tx |-> t,
                         amount |-> <<>>])

\* C15 witness: a dispute that comes with a negative amount, and one that
\* comes with an amount beyond the maximum, would both succeed here, for a
\* deposit of one unit, and hold that one unit.
C15_Witness ==
    /\ pc = "read"
    /\ \E c \in Clients, t \in TxIds :
         \A amount \in {<<0 - 5>>, <<(MAX_EXACT_UNITS + 1) * ONE_UNIT_AS_AMOUNT>>} :
            LET out == execute([command_type |-> "Dispute", client |-> c,
                                tx |-> t, amount |-> amount])
            IN  /\ out.ret.ok
                /\ out.accounts[c].held = 1
                /\ accounts[c].held = 0

\* The ids of the deposit records of client c that are in state Deposited
DepositedOf(c) ==
    { t \in DOMAIN transactions :
        /\ transactions[t].kind = "DepositTransaction"
        /\ transactions[t].client = c
        /\ transactions[t].state = "Deposited" }

\* The ids of the withdrawal records of client c
WithdrawalsOf(c) ==
    { t \in DOMAIN transactions :
        /\ transactions[t].kind = "WithdrawTransaction"
        /\ transactions[t].client = c }

\* C17: in every reachable state the available of every client is the sum of
\* the amounts of its deposit records in state Deposited less the sum of the
\* amounts of its withdrawal records; a client without an account has no
\* record.
C17_AvailableIsDepositedLessWithdrawn ==
    \A c \in Clients :
        IF c \in DOMAIN accounts
        THEN accounts[c].available
               = SumAmounts(DepositedOf(c)) - SumAmounts(WithdrawalsOf(c))
        ELSE \A t \in DOMAIN transactions : transactions[t].client # c

\* C17 witness: a client with a deposit of one unit in state Deposited and a
\* withdrawal of one unit, whose available is nothing.
C17_Witness ==
    \E c \in DOMAIN accounts :
        /\ \E t \in DepositedOf(c) : transactions[t].amount = 1
        /\ \E t \in WithdrawalsOf(c) : transactions[t].amount = 1
        /\ accounts[c].available = 0
        /\ accounts[c].held = 0
        /\ ~accounts[c].locked

\* C19: in every state reached by execute and unlock calls the held of every
\* client is the sum of the amounts of its deposit records under dispute (a
\* client without an account has none), so the account of a record under
\* dispute holds at least its amount, and neither a resolve nor a chargeback
\* fails with "subtraction underflow": not the one the state allows for a
\* record under dispute, and not any that was called.
C19_HeldIsSumOfDisputed ==
    /\ \A c \in Clients :
          IF c \in DOMAIN accounts
          THEN accounts[c].held = SumAmounts(DisputedOf(c))
          ELSE DisputedOf(c) = {}
    /\ \A c \in DOMAIN accounts : \A t \in DisputedOf(c) :
          /\ accounts[c].held >= transactions[t].amount
          /\ AccountResolve(accounts[c], transactions[t].amount).err
               # "subtraction underflow"
          /\ AccountChargeback(accounts[c], transactions[t].amount).err
               # "subtraction underflow"
    /\ (pc = "executed" /\ Called.command_type \in {"Resolve", "Chargeback"})
          => ret[1] # Err("subtraction underflow")

\* C19 witness: a resolve succeeded for a client that has another deposit
\* under dispute, and what the account holds is that deposit's amount.
C19_Witness ==
    /\ CallReturned("Resolve", Ok(<<>>))
    /\ accounts[Called.client].held = 1
    /\ DisputedOf(Called.client) # {}

\* In the calls kept, call i was deposit(d) and succeeded, and was followed by
\* dispute(d) (n = 1), and that by resolve(d) (n = 2), each on the account
\* the call before it returned
ChainFrom(i, n) ==
    /\ i + n <= Len(executed)
    /\ executed[i].method = "deposit"
    /\ executed[i].ret.ok
    /\ n >= 1 => /\ executed[i + 1].method = "dispute"
                 /\ executed[i + 1].argument = executed[i].argument
    /\ n >= 2 => /\ executed[i + 1].ret.ok
                 /\ executed[i + 2].method = "resolve"
                 /\ executed[i + 2].argument = executed[i].argument

\* C14 as claimed: whenever A.deposit(d) succeeds, A.deposit(d).dispute(d)
\* succeeds, the resolve(d) that follows succeeds, and its result is
\* A.deposit(d) in every field.
C14_AsClaimed ==
    \A i \in DOMAIN executed :
        /\ ChainFrom(i, 1) => executed[i + 1].ret.ok
        /\ ChainFrom(i, 2) => /\ executed[i + 2].ret.ok
                              /\ executed[i + 2].ret.val = executed[i].ret.val

\* C14: whenever A.deposit(d) succeeds and A.held + d is within the maximum,
\* A.deposit(d).dispute(d) succeeds, the resolve(d) that follows succeeds,
\* and its result is A.deposit(d) in every field; when A.held + d is beyond
\* the maximum the dispute fails with "addition overflow".
C14_DepositDisputeResolveRoundTrip ==
    \A i \in DOMAIN executed :
        /\ ChainFrom(i, 1) =>
              IF executed[i].self.held + executed[i].argument[1]
                   <= MAX_EXACT_UNITS
              THEN executed[i + 1].ret.ok
              ELSE executed[i + 1].ret = Err("addition overflow")
        /\ ChainFrom(i, 2) => /\ executed[i + 2].ret.ok
                              /\ executed[i + 2].ret.val = executed[i].ret.val

\* C14 witness: deposit, dispute and resolve of one unit were called in a row
\* on a locked account that held nothing, all three succeeded, and the
\* account is the one the deposit returned.
C14_Witness ==
    /\ pc = "account"
    /\ ChainFrom(1, 2)
    /\ executed[1].argument = <<1>>
    /\ executed[1].self.locked
    /\ executed[3].ret = executed[1].ret
    /\ \E c \in DOMAIN accounts : accounts[c] = executed[1].ret.val

\* C20 as claimed: a resolve(amount) on an account with held < amount returns
\* "subtraction underflow", whatever available is, and the account goes on
\* as it was.
C20_AsClaimed ==
    (pc = "account" /\ executed # <<>>) =>
        LET call == executed[Len(executed)]
        IN  (call.method = "resolve" /\ call.self.held < call.argument[1])
              => /\ call.ret = Err("subtraction underflow")
                 /\ \A c \in DOMAIN accounts : accounts[c] = call.self

\* C20 witness: a resolve(amount) on an account with held < amount and
\* available + amount beyond the maximum returned "addition overflow".
C20_Witness ==
    /\ pc = "account"
    /\ executed # <<>>
    /\ LET call == executed[Len(executed)]
       IN  /\ call.method = "resolve"
           /\ call.self.held < call.argument[1]
           /\ call.self.available + call.argument[1] > MAX_EXACT_UNITS
           /\ call.ret = Err("addition overflow")
           /\ \A c \in DOMAIN accounts : accounts[c] = call.self

\* The call of the Moneys operation that has returned
MoneysReturned(method) ==
    /\ pc = "returned"
    /\ executed # <<>>
    /\ executed[1].method = method

\* C16: for a and b within 0..MAX_EXACT_UNITS, a.add(b) returns
\* "addition overflow" exactly when the sum of the two in unbounded
\* arithmetic is above MAX_EXACT_UNITS and returns that sum otherwise,
\* a.sub(b) returns "subtraction underflow" exactly when b is above a and
\* returns the difference (the value that added to b makes a) otherwise, and
\* the 64-bit addition inside add loses no bit.
C16_AddAndSubAreExact ==
    /\ MoneysReturned("add") =>
          LET a == executed[1].self
              b == executed[1].other
          IN  /\ ret[1].result = IF WLess(MAX_EXACT_UNITS_U64, WAdd(a, b))
                                 THEN Err("addition overflow")
                                 ELSE Ok(WAdd(a, b))
              /\ ~ret[1].wrapped
    /\ MoneysReturned("sub") =>
          LET a == executed[1].self
              b == executed[1].other
          IN  IF WLess(a, b)
              THEN ret[1].result = Err("subtraction underflow")
              ELSE /\ ret[1].result.ok
                   /\ WAdd(ret[1].result.val, b) = a
                   /\ ~WLess(a, ret[1].result.val)

\* C16 witness: the two halves of the maximum were added, and the result is
\* the maximum itself.
C16_Witness ==
    /\ MoneysReturned("add")
    /\ executed[1].self = WHalve(MAX_EXACT_UNITS_U64)
    /\ executed[1].other = WHalve(MAX_EXACT_UNITS_U64)
    /\ ret[1].result = Ok(MAX_EXACT_UNITS_U64)

\* A decimal text of units * 0.0001 + fifth * 0.00001 rounded to a whole
\* number of units, ties away from zero, as a decimal reader would do it
RoundHalfAwayFromZero(text) ==
    IF text.fifth >= 5 THEN WAdd(text.units, WideOf(1)) ELSE text.units

\* C18 as claimed: the amount of a decimal text is converted to the number of
\* units nearest to amount / 0.0001, ties away from zero, without loss of
\* precision: "negative money value" when that number is below zero, "money
\* value too big" when it is above MAX_EXACT_UNITS, and that number otherwise.
C18_AsClaimed ==
    (MoneysReturned("try_from") /\ executed[1].text # <<>>) =>
        LET text == executed[1].text
            units == RoundHalfAwayFromZero(text)
        IN  ret[1] = IF text.neg /\ units # WideOf(0)
                     THEN Err("negative money value")
                     ELSE IF WLess(MAX_EXACT_UNITS_U64, units)
                          THEN Err("money value too big")
                          ELSE Ok(units)

\* C18 witness: the text "0.00015", whose amount is one and a half units, was
\* converted to one unit, the quotient in f64 being below 1.5.
C18_Witness ==
    /\ MoneysReturned("try_from")
    /\ executed[1].text = [neg |-> FALSE, units |-> WideOf(1), fifth |-> 5]
    /\ executed[1].quotient # <<>>
    /\ WLess(executed[1].quotient[1].m, <<0, 3 * (2 ^ 21), 0>>)
    /\ executed[1].quotient[1].e = 0 - 52
    /\ ret[1] = Ok(WideOf(1))

\* What does hold of the conversion: a text of at most four decimals is
\* converted to exactly its number of units, and whatever is accepted is
\* within 0..MAX_EXACT_UNITS.
TryFromIsExactAtFourDecimals ==
    MoneysReturned("try_from") =>
        /\ ret[1].ok => ~WLess(MAX_EXACT_UNITS_U64, ret[1].val)
        /\ (executed[1].text # <<>> /\ executed[1].text.fifth = 0) =>
              LET text == executed[1].text
              IN  ret[1] = IF text.neg /\ text.units # WideOf(0)
                           THEN Err("negative money value")
                           ELSE IF WLess(MAX_EXACT_UNITS_U64, text.units)
                                THEN Err("money value too big")
                                ELSE Ok(text.units)

\* C21: a dispute, resolve or chargeback of transaction id t by client c
\* succeeds only if a deposit with the id t and the client c succeeded
\* earlier in the stream; a resolve or chargeback that succeeds moreover
\* comes after a dispute of t that succeeded, with no resolve of t succeeding
\* in between.
C21_DisputeFollowsItsDeposit ==
    [][(/\ ExecuteStep
        /\ Returned.ok
        /\ CalledWith.command_type \in DisputeTypes)
         => /\ CalledWith.client \in succeeded[CalledWith.tx].deposited_by
            /\ CalledWith.command_type \in {"Resolve", "Chargeback"}
                 => succeeded[CalledWith.tx].disputed]_vars

\* C21 witness: a resolve succeeded for a client whose deposit and dispute
\* of that id had succeeded, while another client has a deposit under the
\* other id that was disputed too.
C21_Witness ==
    /\ CallReturned("Resolve", Ok(<<>>))
    /\ succeeded[Called.tx].deposited_by = {Called.client}
    /\ ~succeeded[Called.tx].disputed
    /\ \E t \in TxIds \ {Called.tx} :
          /\ succeeded[t].deposited_by # {}
          /\ Called.client \notin succeeded[t].deposited_by
          /\ succeeded[t].disputed

\* A map cut down to the entry under k, if it has one
OnlyEntry(map, k) == [x \in DOMAIN map \cap {k} |-> map[x]]

\* The commands that have the type, the client and the transaction id of the
\* call, with every amount a command of that type can carry
CallsLike(call) ==
    { [command_type |-> call.command_type, client |-> call.client,
       tx |-> call.tx, amount |-> amount] :
         amount \in AmountsOf(call.command_type) }

\* C22: when execute(command) succeeds, the account under command.client and
\* the record under command.tx are both stored, every other account and every
\* other record is what it was, no other key appears or disappears, and the
\* pair stored is the one execute stores on a Processor that holds nothing
\* but the account of command.client and the record of command.tx as they
\* were before the call.
C22_ExecuteWritesOnePairFromOnePair ==
    [][(ExecuteStep /\ Returned.ok) =>
          LET c == CalledWith.client
              t == CalledWith.tx
          IN  /\ DOMAIN accounts' = DOMAIN accounts \cup {c}
              /\ DOMAIN transactions' = DOMAIN transactions \cup {t}
              /\ \A d \in DOMAIN accounts \ {c} : accounts'[d] = accounts[d]
              /\ \A u \in DOMAIN transactions \ {t} :
                    transactions'[u] = transactions[u]
              /\ \E cmd \in CallsLike(CalledWith) :
                    LET out == execute_on(OnlyEntry(accounts, c),
                                          OnlyEntry(transactions, t), cmd)
                    IN  /\ out.ret.ok
                        /\ out.accounts[c] = accounts'[c]
                        /\ out.transactions[t] = transactions'[t]]_vars

\* C22 witness: a dispute succeeded and moved its amount to held, while
\* another client holds an account with funds and a record of its own under
\* another transaction id.
C22_Witness ==
    /\ CallReturned("Dispute", Ok(<<>>))
    /\ accounts[Called.client].held > 0
    /\ transactions[Called.tx].state = "Disputed"
    /\ \E d \in DOMAIN accounts \ {Called.client} : accounts[d].available > 0
    /\ \E u \in DOMAIN transactions \ {Called.tx} :
          transactions[u].client # Called.client

\* The step in which Processor::unlock is called and returns
UnlockStep == ExecuteStep /\ CalledWith.command_type = "Unlock"

\* C23: unlock(client) returns "client not found" when the client has no
\* account and "account not locked" when its account is not locked, and
\* changes nothing in either case; on a locked account it returns Ok and
\* clears locked, leaving available and held, every other account and every
\* record as they were. A command for a client whose account is not locked,
\* unlocked accounts included, is never refused as "locked account", and a
\* chargeback by such a client of a Disputed deposit of its own succeeds and
\* locks the account.
C23_UnlockClearsOnlyTheLock ==
    /\ [][UnlockStep =>
            LET c == CalledWith.client
            IN  /\ transactions' = transactions
                /\ IF c \notin DOMAIN accounts
                   THEN /\ Returned = Err("client not found")
                        /\ accounts' = accounts
                   ELSE IF ~accounts[c].locked
                   THEN /\ Returned = Err("account not locked")
                        /\ accounts' = accounts
                   ELSE /\ Returned = Ok(<<>>)
                        /\ DOMAIN accounts' = DOMAIN accounts
                        /\ \A d \in DOMAIN accounts \ {c} :
                              accounts'[d] = accounts[d]
                        /\ accounts'[c] =
                             [client |-> c,
                              available |-> accounts[c].available,
                              held |-> accounts[c].held,
                              locked |-> FALSE]]_vars
    /\ [][(/\ ExecuteStep
           /\ ~UnlockStep
           /\ ~ResolveAccount(accounts, CalledWith.client).locked)
            => /\ Returned # Err("locked account")
               /\ (/\ CalledWith.command_type = "Chargeback"
                   /\ CalledWith.tx \in DOMAIN transactions
                   /\ Referenced.kind = "DepositTransaction"
                   /\ Referenced.client = CalledWith.client
                   /\ Referenced.state = "Disputed")
                    => /\ Returned.ok
                       /\ accounts'[CalledWith.client].locked]_vars

\* C23 witness: a client's chargeback has succeeded and locked the account
\* while another deposit of that client is charged back already, which locked
\* the account before: it was unlocked in between, with the deposit charged
\* back now still Disputed.
C23_Witness ==
    /\ CallReturned("Chargeback", Ok(<<>>))
    /\ accounts[Called.client].locked
    /\ \E u \in DOMAIN transactions \ {Called.tx} :
          /\ transactions[u].client = Called.client
          /\ transactions[u].state = "ChargedBack"
    /\ transactions[Called.tx].client = Called.client
    /\ transactions[Called.tx].state = "ChargedBack"

====
